---- MODULE Spec2Model ----
(***************************************************************************)
(* Model of the todo backend (src/backend): JWT issuance and verification, *)
(* the access guard, the account routes and the six task routes, the       *)
(* per-request database session and the serverless bootstrap middleware.   *)
(***************************************************************************)
EXTENDS Integers, Sequences, FiniteSets, TLC

VARIABLES
    now,            \* datetime.utcnow(), in clock ticks
    expirationDays, \* settings.JWT_EXPIRATION_DAYS of the running process
    users,          \* committed rows of table users
    tasks,          \* committed rows of table tasks
    userSeq,        \* last id handed out for users
    taskSeq,        \* last id handed out for tasks
    dialect,        \* database behind DATABASE_URL: "sqlite" or "postgresql"
    entry,          \* application entry point: "main" or "serverless"
    dbInitialized,  \* api/index.py _db_initialized (TRUE after lifespan in main)
    req,            \* the last request handled
    resp,           \* its response
    dbLog,          \* persistence accesses made on behalf of the last request
    tok,            \* token workbench: the token last issued or presented
    verified,       \* token workbench: outcome of the last verify_token
    sess,           \* signup race: per-request session state
    process         \* the server process: its settings and whether it serves

vars == <<now, expirationDays, users, tasks, userSeq, taskSeq, dialect, entry,
          dbInitialized, req, resp, dbLog, tok, verified, sess, process>>

(***************************************************************************)
(* Bounds of the model.                                                    *)
(***************************************************************************)
MaxClock == 1
MaxTokenClock == 17
MaxUsers == 2
MaxTasks == 1
MaxTaskSeq == 2
NumRaceRequests == 2
MaxListTasks == 3
MaxListClock == 2
NumInitRequests == 3
TicksPerSecond == 2
SecondsPerDay == 1

(***************************************************************************)
(* Program constants.                                                      *)
(***************************************************************************)
JWT_EXPIRATION_DAYS == 7

SECRET_MIN_LENGTH == 32

\* config.py: the settings a process reads from its environment
Settings(database_url, better_auth_secret) ==
    [DATABASE_URL |-> database_url, BETTER_AUTH_SECRET |-> better_auth_secret]

\* A configuration that passes Settings.validate
ValidSettings == Settings("postgresql://db/todo", "server-secret-32-characters-long")

\* settings.BETTER_AUTH_SECRET of the running process
BETTER_AUTH_SECRET == process.settings.BETTER_AUTH_SECRET

HTTP_200_OK == 200
HTTP_201_CREATED == 201
HTTP_204_NO_CONTENT == 204
HTTP_400_BAD_REQUEST == 400
HTTP_401_UNAUTHORIZED == 401
HTTP_403_FORBIDDEN == 403
HTTP_404_NOT_FOUND == 404
HTTP_422_UNPROCESSABLE == 422

EMAIL_MIN_LENGTH == 3
EMAIL_MAX_LENGTH == 255
PASSWORD_MIN_LENGTH == 8
PASSWORD_MAX_LENGTH == 100
TITLE_MIN_LENGTH == 1
TITLE_MAX_LENGTH == 200
DESCRIPTION_MAX_LENGTH == 2000

(***************************************************************************)
(* Values.                                                                 *)
(***************************************************************************)
None == "<None>"

Emails == {"a@x.io", "A@x.io"}
EmailInputs == Emails \cup {"ab"}
Passwords == {"password1", "password2"}
PasswordInputs == Passwords \cup {"short"}
Salts == {"s1"}
CreateTitles == {"Buy milk", ""}
UpdateTitles == {None, "Call mum", ""}
Descriptions == {None, "2 litres"}
Secrets == {"", "short-secret", ValidSettings.BETTER_AUTH_SECRET}

NoHeaders == {}
BearerHeader == {<<"WWW-Authenticate", "Bearer">>}

(***************************************************************************)
(* HTTP outcomes.  An HTTPException carries status, detail and headers;    *)
(* a normal return carries the route's status code and a body.             *)
(***************************************************************************)
HTTPException(status_code, detail, headers) ==
    [raised |-> TRUE, status |-> status_code, detail |-> detail,
     headers |-> headers, body |-> <<>>]

Response(status_code, body) ==
    [raised |-> FALSE, status |-> status_code, detail |-> "",
     headers |-> NoHeaders, body |-> body]

\* An exception no handler catches: the framework answers 500.
ServerError(kind) ==
    [raised |-> TRUE, status |-> 500, detail |-> kind,
     headers |-> NoHeaders, body |-> <<>>]

RequestValidationError ==
    [raised |-> TRUE, status |-> HTTP_422_UNPROCESSABLE, detail |-> "validation",
     headers |-> NoHeaders, body |-> <<>>]

(***************************************************************************)
(* str(int) and int(str) on decimal digit strings (sequences of digits).   *)
(***************************************************************************)
Digits == <<"0", "1", "2", "3", "4", "5", "6", "7", "8", "9">>

DigitValue(c) == (CHOOSE i \in 1..10 : Digits[i] = c) - 1

IsDigit(c) == \E i \in 1..10 : Digits[i] = c

RECURSIVE StrOfNat(_)
StrOfNat(n) ==
    IF n < 10 THEN <<Digits[n + 1]>>
    ELSE Append(StrOfNat(n \div 10), Digits[(n % 10) + 1])

\* str(user_id)
str(n) == IF n < 0 THEN <<"-">> \o StrOfNat(0 - n) ELSE StrOfNat(n)

RECURSIVE NatOfStr(_)
NatOfStr(s) ==
    IF Len(s) = 0 THEN 0
    ELSE 10 * NatOfStr(SubSeq(s, 1, Len(s) - 1)) + DigitValue(s[Len(s)])

IsNatStr(s) == Len(s) >= 1 /\ \A i \in 1..Len(s) : IsDigit(s[i])

\* int(user_id) raises ValueError on a string that is no integer literal
IsIntStr(s) ==
    \/ IsNatStr(s)
    \/ Len(s) >= 2 /\ s[1] \in {"-", "+"} /\ IsNatStr(Tail(s))

int(s) ==
    IF s[1] = "-" THEN 0 - NatOfStr(Tail(s))
    ELSE IF s[1] = "+" THEN NatOfStr(Tail(s))
    ELSE NatOfStr(s)

(***************************************************************************)
(* Time.  The clock counts ticks; a JWT NumericDate is whole seconds.      *)
(***************************************************************************)
timedelta(days) == days * SecondsPerDay * TicksPerSecond

\* calendar.timegm(dt.utctimetuple()): the datetime cut to whole seconds
timegm(dt) == dt \div TicksPerSecond

(***************************************************************************)
(* Password hashing (bcrypt through passlib).                              *)
(***************************************************************************)
bcrypt(password, salt) == [salt |-> salt, digest |-> <<salt, password>>]

hash_password(password, salt) == bcrypt(password, salt)

verify_password(plain_password, hashed_password) ==
    bcrypt(plain_password, hashed_password.salt) = hashed_password

(***************************************************************************)
(* JWT (python-jose).  A token is its claims and the key that signed it.   *)
(***************************************************************************)
jwt_encode(payload, key) == [claims |-> payload, sig |-> key]

Has(payload, claim) == claim \in DOMAIN payload

\* jwt.decode: JWTError on a bad signature or on exp < now (whole seconds)
jwt_decode_fails(token, key, t) ==
    \/ token.sig # key
    \/ Has(token.claims, "exp") /\ token.claims.exp < timegm(t)

\* Mutant: the token is signed with a key verify_token does not use.
create_access_token_other_key(user_id, email, days, t, t_iat) ==
    jwt_encode([sub |-> str(user_id), email |-> email,
                exp |-> timegm(t + timedelta(days)), iat |-> timegm(t_iat)],
               "attacker-secret")

\* t is the clock at line 71, t_iat the clock at line 77 (a second utcnow())
create_access_token(user_id, email, days, t, t_iat) ==
    LET expires_delta == timedelta(days)
        expire == t + expires_delta
        payload == [sub |-> str(user_id), email |-> email,
                    exp |-> timegm(expire), iat |-> timegm(t_iat)]
    IN  jwt_encode(payload, BETTER_AUTH_SECRET)

Authenticated(user_id, email) ==
    [raised |-> FALSE, user_id |-> user_id, email |-> email]

verify_token(token, t) ==
    IF jwt_decode_fails(token, BETTER_AUTH_SECRET, t)
    THEN HTTPException(HTTP_401_UNAUTHORIZED, "Could not validate credentials",
                       BearerHeader)
    ELSE IF ~Has(token.claims, "sub") \/ ~Has(token.claims, "email")
    THEN HTTPException(HTTP_401_UNAUTHORIZED, "Invalid authentication credentials",
                       BearerHeader)
    ELSE IF ~IsIntStr(token.claims.sub)
    THEN ServerError("ValueError")
    ELSE Authenticated(int(token.claims.sub), token.claims.email)

get_current_user(credentials, t) == verify_token(credentials, t)

(***************************************************************************)
(* The access guard.                                                       *)
(***************************************************************************)
Passed == [raised |-> FALSE]

\* Mutant: the guard lets every caller through.
validate_user_access_open(current_user_id, resource_user_id) == Passed

validate_user_access(current_user_id, resource_user_id) ==
    IF current_user_id # resource_user_id
    THEN HTTPException(HTTP_403_FORBIDDEN, "Cannot access other user's resources",
                       NoHeaders)
    ELSE Passed

(***************************************************************************)
(* The store and the statements a session runs against it.  S is the rows  *)
(* the session sees: [users, tasks, userSeq, taskSeq].                     *)
(***************************************************************************)
Store == [users |-> users, tasks |-> tasks, userSeq |-> userSeq, taskSeq |-> taskSeq]

Max(ids) == IF ids = {} THEN 0 ELSE CHOOSE m \in ids : \A i \in ids : i <= m

\* INTEGER PRIMARY KEY: sqlite hands out max(rowid)+1, postgresql the next
\* value of the column's sequence.
NextTaskId(S) ==
    IF dialect = "sqlite" THEN Max({t.id : t \in S.tasks}) + 1 ELSE S.taskSeq + 1

NextUserId(S) ==
    IF dialect = "sqlite" THEN Max({u.id : u \in S.users}) + 1 ELSE S.userSeq + 1

\* Mutant: the query is scoped by id alone.
SelectTask_by_id(S, id, user_id) == {t \in S.tasks : t.id = id}

\* select(Task).where(Task.id == id, Task.user_id == user_id)
SelectTask(S, id, user_id) == {t \in S.tasks : t.id = id /\ t.user_id = user_id}

\* select(Task).where(Task.user_id == user_id)
SelectTasksOf(S, user_id) == {t \in S.tasks : t.user_id = user_id}

\* select(User).where(User.email == email)
SelectUser(S, email) == {u \in S.users : u.email = email}

scalar_one(rows) == CHOOSE r \in rows : TRUE

\* ORDER BY created_at: every arrangement of the rows with created_at
\* non-decreasing; SQL leaves the order of rows with equal keys open.
OrderByCreatedAt(rows) ==
    {s \in [1..Cardinality(rows) -> rows] :
        /\ \A i, j \in DOMAIN s : i < j => s[i] # s[j]
        /\ \A i, j \in DOMAIN s : i < j => s[i].created_at <= s[j].created_at}

Outcome(r, S, log) == [resp |-> r, db |-> S, log |-> log]

TaskResponse(task) ==
    [id |-> task.id, user_id |-> task.user_id, title |-> task.title,
     description |-> task.description, is_completed |-> task.is_completed,
     created_at |-> task.created_at, updated_at |-> task.updated_at]

UserResponse(user) ==
    [id |-> user.id, email |-> user.email, created_at |-> user.created_at]

TaskNotFound == HTTPException(HTTP_404_NOT_FOUND, "Task not found", NoHeaders)

(***************************************************************************)
(* The six task routes (routes/tasks.py).  Each yields the set of its      *)
(* possible outcomes: the response, the rows as the session leaves them    *)
(* after its flushes, and the statements it ran.                           *)
(***************************************************************************)
\* Mutant: the list is not scoped to an owner.
get_tasks_unscoped(S, user_id, current_user) ==
    {Outcome(Response(HTTP_200_OK, [i \in DOMAIN rows |-> TaskResponse(rows[i])]),
             S, <<"SELECT tasks">>) : rows \in OrderByCreatedAt(S.tasks)}

get_tasks(S, user_id, current_user) ==
    LET guard == validate_user_access(current_user.user_id, user_id)
    IN  IF guard.raised THEN {Outcome(guard, S, <<>>)}
        ELSE {Outcome(Response(HTTP_200_OK,
                               [i \in DOMAIN rows |-> TaskResponse(rows[i])]),
                      S, <<"SELECT tasks">>) :
                rows \in OrderByCreatedAt(SelectTasksOf(S, current_user.user_id))}

\* t_created and t_updated are the two default_factory reads of the clock
create_task(S, task_data, user_id, current_user, t_created, t_updated) ==
    LET guard == validate_user_access(current_user.user_id, user_id)
        new_task == [id |-> NextTaskId(S),
                     user_id |-> current_user.user_id,
                     title |-> task_data.title,
                     description |-> task_data.description,
                     is_completed |-> FALSE,
                     created_at |-> t_created,
                     updated_at |-> t_updated]
    IN  IF guard.raised THEN {Outcome(guard, S, <<>>)}
        ELSE {Outcome(Response(HTTP_201_CREATED, <<TaskResponse(new_task)>>),
                      [S EXCEPT !.tasks = @ \cup {new_task},
                                !.taskSeq = IF dialect = "postgresql"
                                            THEN @ + 1 ELSE @],
                      <<"INSERT tasks", "SELECT tasks">>)}

get_task(S, user_id, id, current_user) ==
    LET guard == validate_user_access(current_user.user_id, user_id)
        rows == SelectTask(S, id, current_user.user_id)
    IN  IF guard.raised THEN {Outcome(guard, S, <<>>)}
        ELSE IF rows = {} THEN {Outcome(TaskNotFound, S, <<"SELECT tasks">>)}
        ELSE {Outcome(Response(HTTP_200_OK, <<TaskResponse(scalar_one(rows))>>),
                      S, <<"SELECT tasks">>)}

\* Mutant: the update also stamps the caller as the owner of the row it finds by id.
update_task_takeover(S, task_update, user_id, id, current_user, t) ==
    LET rows == {k \in S.tasks : k.id = id}
        task == scalar_one(rows)
        updated == [task EXCEPT !.user_id = current_user.user_id, !.updated_at = t]
    IN  IF rows = {} THEN {Outcome(TaskNotFound, S, <<"SELECT tasks">>)}
        ELSE {Outcome(Response(HTTP_200_OK, <<TaskResponse(updated)>>),
                      [S EXCEPT !.tasks = (@ \ {task}) \cup {updated}],
                      <<"SELECT tasks", "UPDATE tasks", "SELECT tasks">>)}

\* Mutant: the update assigns both fields of the body, supplied or not.
update_task_overwriting(S, task_update, user_id, id, current_user, t) ==
    LET guard == validate_user_access(current_user.user_id, user_id)
        rows == SelectTask(S, id, current_user.user_id)
        task == scalar_one(rows)
        updated == [task EXCEPT !.title = task_update.title,
                                !.description = task_update.description,
                                !.updated_at = t]
    IN  IF guard.raised THEN {Outcome(guard, S, <<>>)}
        ELSE IF rows = {} THEN {Outcome(TaskNotFound, S, <<"SELECT tasks">>)}
        ELSE {Outcome(Response(HTTP_200_OK, <<TaskResponse(updated)>>),
                      [S EXCEPT !.tasks = (@ \ {task}) \cup {updated}],
                      <<"SELECT tasks", "UPDATE tasks", "SELECT tasks">>)}

update_task(S, task_update, user_id, id, current_user, t) ==
    LET guard == validate_user_access(current_user.user_id, user_id)
        rows == SelectTask(S, id, current_user.user_id)
        task == scalar_one(rows)
        updated == [task EXCEPT
                      !.title = IF task_update.title # None
                                THEN task_update.title ELSE @,
                      !.description = IF task_update.description # None
                                      THEN task_update.description ELSE @,
                      !.updated_at = t]
    IN  IF guard.raised THEN {Outcome(guard, S, <<>>)}
        ELSE IF rows = {} THEN {Outcome(TaskNotFound, S, <<"SELECT tasks">>)}
        ELSE {Outcome(Response(HTTP_200_OK, <<TaskResponse(updated)>>),
                      [S EXCEPT !.tasks = (@ \ {task}) \cup {updated}],
                      <<"SELECT tasks", "UPDATE tasks", "SELECT tasks">>)}

\* Mutant: the delete answers 204 and leaves the row.
delete_task_keeping(S, user_id, id, current_user) ==
    LET guard == validate_user_access(current_user.user_id, user_id)
        rows == SelectTask(S, id, current_user.user_id)
    IN  IF guard.raised THEN {Outcome(guard, S, <<>>)}
        ELSE IF rows = {} THEN {Outcome(TaskNotFound, S, <<"SELECT tasks">>)}
        ELSE {Outcome(Response(HTTP_204_NO_CONTENT, <<>>), S, <<"SELECT tasks">>)}

delete_task(S, user_id, id, current_user) ==
    LET guard == validate_user_access(current_user.user_id, user_id)
        rows == SelectTask(S, id, current_user.user_id)
        task == scalar_one(rows)
    IN  IF guard.raised THEN {Outcome(guard, S, <<>>)}
        ELSE IF rows = {} THEN {Outcome(TaskNotFound, S, <<"SELECT tasks">>)}
        ELSE {Outcome(Response(HTTP_204_NO_CONTENT, <<>>),
                      [S EXCEPT !.tasks = @ \ {task}],
                      <<"SELECT tasks", "DELETE tasks">>)}

\* Mutant: the toggle flips the stored flag.
toggle_task_completion_flipping(S, completion_data, user_id, id, current_user, t) ==
    LET guard == validate_user_access(current_user.user_id, user_id)
        rows == SelectTask(S, id, current_user.user_id)
        task == scalar_one(rows)
        updated == [task EXCEPT !.is_completed = ~@, !.updated_at = t]
    IN  IF guard.raised THEN {Outcome(guard, S, <<>>)}
        ELSE IF rows = {} THEN {Outcome(TaskNotFound, S, <<"SELECT tasks">>)}
        ELSE {Outcome(Response(HTTP_200_OK, <<TaskResponse(updated)>>),
                      [S EXCEPT !.tasks = (@ \ {task}) \cup {updated}],
                      <<"SELECT tasks", "UPDATE tasks", "SELECT tasks">>)}

\* Mutant: the toggle sets the flag and leaves updated_at as it was.
toggle_task_completion_unstamped(S, completion_data, user_id, id, current_user, t) ==
    LET guard == validate_user_access(current_user.user_id, user_id)
        rows == SelectTask(S, id, current_user.user_id)
        task == scalar_one(rows)
        updated == [task EXCEPT !.is_completed = completion_data.is_completed]
    IN  IF guard.raised THEN {Outcome(guard, S, <<>>)}
        ELSE IF rows = {} THEN {Outcome(TaskNotFound, S, <<"SELECT tasks">>)}
        ELSE {Outcome(Response(HTTP_200_OK, <<TaskResponse(updated)>>),
                      [S EXCEPT !.tasks = (@ \ {task}) \cup {updated}],
                      <<"SELECT tasks", "UPDATE tasks", "SELECT tasks">>)}

toggle_task_completion(S, completion_data, user_id, id, current_user, t) ==
    LET guard == validate_user_access(current_user.user_id, user_id)
        rows == SelectTask(S, id, current_user.user_id)
        task == scalar_one(rows)
        updated == [task EXCEPT !.is_completed = completion_data.is_completed,
                                !.updated_at = t]
    IN  IF guard.raised THEN {Outcome(guard, S, <<>>)}
        ELSE IF rows = {} THEN {Outcome(TaskNotFound, S, <<"SELECT tasks">>)}
        ELSE {Outcome(Response(HTTP_200_OK, <<TaskResponse(updated)>>),
                      [S EXCEPT !.tasks = (@ \ {task}) \cup {updated}],
                      <<"SELECT tasks", "UPDATE tasks", "SELECT tasks">>)}

(***************************************************************************)
(* Request models (models.py): what pydantic accepts.                      *)
(***************************************************************************)
TaskCreate(task_data) ==
    /\ Len(task_data.title) >= TITLE_MIN_LENGTH
    /\ Len(task_data.title) <= TITLE_MAX_LENGTH
    /\ task_data.description = None
        \/ Len(task_data.description) <= DESCRIPTION_MAX_LENGTH

TaskUpdate(task_update) ==
    /\ task_update.title = None
        \/ /\ Len(task_update.title) >= TITLE_MIN_LENGTH
           /\ Len(task_update.title) <= TITLE_MAX_LENGTH
    /\ task_update.description = None
        \/ Len(task_update.description) <= DESCRIPTION_MAX_LENGTH

UserCreate(user_data) ==
    /\ Len(user_data.email) >= EMAIL_MIN_LENGTH
    /\ Len(user_data.email) <= EMAIL_MAX_LENGTH
    /\ Len(user_data.password) >= PASSWORD_MIN_LENGTH
    /\ Len(user_data.password) <= PASSWORD_MAX_LENGTH

(***************************************************************************)
(* The account routes (routes/auth.py), one request at a time.             *)
(***************************************************************************)
EmailRegistered == HTTPException(HTTP_400_BAD_REQUEST, "Email already registered",
                                 NoHeaders)

\* users.email is UNIQUE: the INSERT of a second row with the email fails
UniqueViolation(S, email) == \E u \in S.users : u.email = email

\* Mutant: no look-up of the email before the INSERT.
signup_check_skipped(S, user_data) == {}

\* lines 63-67: select(User).where(User.email == user_data.email)
signup_check(S, user_data) == SelectUser(S, user_data.email)

\* lines 75-82: the row to insert
signup_new_user(S, user_data, salt, t) ==
    [id |-> NextUserId(S), email |-> user_data.email,
     password_hash |-> hash_password(user_data.password, salt), created_at |-> t]

\* lines 88-99: the token and the 201 body
signup_response(new_user, t_token) ==
    Response(HTTP_201_CREATED,
             <<[token |-> create_access_token(new_user.id, new_user.email,
                                              expirationDays, t_token, t_token),
                user |-> UserResponse(new_user)]>>)

\* t is the clock when User(...) is built, t_token when the token is made
signup(S, user_data, salt, t, t_token) ==
    LET existing_user == signup_check(S, user_data)
        new_user == signup_new_user(S, user_data, salt, t)
    IN  IF existing_user # {}
        THEN {Outcome(EmailRegistered, S, <<"SELECT users">>)}
        ELSE IF UniqueViolation(S, new_user.email)
        THEN {Outcome(ServerError("IntegrityError"), S,
                      <<"SELECT users", "INSERT users">>)}
        ELSE {Outcome(signup_response(new_user, t_token),
                      [S EXCEPT !.users = @ \cup {new_user},
                                !.userSeq = IF dialect = "postgresql"
                                            THEN @ + 1 ELSE @],
                      <<"SELECT users", "INSERT users", "SELECT users">>)}

InvalidCredentials ==
    HTTPException(HTTP_401_UNAUTHORIZED, "Invalid email or password", BearerHeader)

\* Mutant: the two failures of signin are told apart.
signin_telling(S, credentials, t_token) ==
    LET rows == SelectUser(S, credentials.email)
        user == scalar_one(rows)
        token == create_access_token(user.id, user.email, expirationDays,
                                     t_token, t_token)
    IN  IF rows = {}
        THEN {Outcome(HTTPException(HTTP_401_UNAUTHORIZED, "Unknown email",
                                    BearerHeader), S, <<"SELECT users">>)}
        ELSE IF ~verify_password(credentials.password, user.password_hash)
        THEN {Outcome(InvalidCredentials, S, <<"SELECT users">>)}
        ELSE {Outcome(Response(HTTP_200_OK,
                               <<[token |-> token, user |-> UserResponse(user)]>>),
                      S, <<"SELECT users">>)}

signin(S, credentials, t_token) ==
    LET rows == SelectUser(S, credentials.email)
        user == scalar_one(rows)
        token == create_access_token(user.id, user.email, expirationDays,
                                     t_token, t_token)
    IN  IF rows = {} \/ ~verify_password(credentials.password, user.password_hash)
        THEN {Outcome(InvalidCredentials, S, <<"SELECT users">>)}
        ELSE {Outcome(Response(HTTP_200_OK,
                               <<[token |-> token, user |-> UserResponse(user)]>>),
                      S, <<"SELECT users">>)}

\* Mutant: signing out closes the caller's account.
signout_closing_account(S, current_user) ==
    {Outcome(Response(HTTP_200_OK, <<[message |-> "Signed out successfully"]>>),
             [S EXCEPT !.users = {u \in @ : u.id # current_user.user_id}],
             <<"DELETE users">>)}

signout(S, current_user) ==
    {Outcome(Response(HTTP_200_OK, <<[message |-> "Signed out successfully"]>>),
             S, <<>>)}

(***************************************************************************)
(* Around the handler: the bootstrap middleware (api/index.py) and the     *)
(* session dependency (db.py).                                             *)
(***************************************************************************)
\* init_db() on the first request of a serverless process; main.py ran it
\* in its lifespan, before any request.
ensure_db_initialized ==
    IF entry = "serverless" /\ ~dbInitialized
    THEN [log |-> <<"init_db">>, initialized |-> TRUE]
    ELSE [log |-> <<>>, initialized |-> dbInitialized]

\* Mutant: the session commits whatever the handler did, raised or not.
get_session_committing(o, S) ==
    [db |-> o.db, log |-> IF o.log = <<>> THEN <<>> ELSE <<"COMMIT">>]

\* commit when the handler returned, rollback when it raised; a session
\* that ran no statement has no transaction to end.
get_session(o, S) ==
    IF o.resp.raised
    THEN [db |-> S, log |-> IF o.log = <<>> THEN <<>> ELSE <<"ROLLBACK">>]
    ELSE [db |-> o.db, log |-> IF o.log = <<>> THEN <<>> ELSE <<"COMMIT">>]

(***************************************************************************)
(* Requests, one at a time.                                                *)
(***************************************************************************)
\* main.py on the default sqlite file, api/index.py on hosted postgresql
Deployments == {<<"main", "sqlite">>, <<"serverless", "postgresql">>}

NoRequest == [route |-> "none"]
NoResponse == [raised |-> FALSE, status |-> 0, detail |-> "", headers |-> NoHeaders,
               body |-> <<>>]
NoToken == [claims |-> <<>>, sig |-> "none"]

TaskRoutes == {"get_tasks", "create_task", "get_task", "update_task", "delete_task",
               "toggle_task_completion"}

\* A later read of the clock within one request: the same tick or the next
LaterReads(t, limit) == {t2 \in {t, t + 1} : t2 <= limit}

\* Tokens a client can hold: those signin hands the user from the moment
\* the account exists, and the first user's claims signed with another key.
IssuedTokens ==
    {create_access_token(u.id, u.email, expirationDays, t, t) :
        u \in users, t \in 0..now}

ForgedTokens ==
    {jwt_encode(k.claims, "attacker-secret") :
        k \in {k \in IssuedTokens : k.claims.sub = str(1)}}

PresentedTokens == IssuedTokens \cup ForgedTokens

\* A request whose token is turned away is never looked at further: one
\* path, id and body stand for all of them.
Rejected(token) == get_current_user(token, now).raised

One(S) == {CHOOSE x \in S : TRUE}

PathUserIds(token) == IF Rejected(token) THEN {1} ELSE 1..MaxUsers
TaskIds(token) == IF Rejected(token) THEN {1} ELSE 1..MaxTaskSeq
Bodies(token, all) == IF Rejected(token) THEN One(all) ELSE all

TaskCreateBodies == [title : CreateTitles, description : Descriptions]
TaskUpdateBodies == [title : UpdateTitles, description : Descriptions]
ToggleBodies == [is_completed : BOOLEAN]

\* The request has been answered with outcome o of its handler.
Complete(request, o, t_end) ==
    LET mw == ensure_db_initialized
        session == get_session(o, Store)
    IN  /\ req' = request
        /\ resp' = o.resp
        /\ dbLog' = mw.log \o o.log \o session.log
        /\ dbInitialized' = mw.initialized
        /\ users' = session.db.users
        /\ tasks' = session.db.tasks
        /\ userSeq' = session.db.userSeq
        /\ taskSeq' = session.db.taskSeq
        /\ now' = t_end
        /\ UNCHANGED <<expirationDays, dialect, entry, tok, verified, sess, process>>

\* The process takes one request at a time.
Idle == req = NoRequest

\* Depends(get_current_user), then the body's validation, then the handler
Protected(request, valid, outcomes(_), t_end) ==
    LET current_user == get_current_user(request.token, now)
    IN  IF current_user.raised
        THEN Complete(request, Outcome(current_user, Store, <<>>), now)
        ELSE IF ~valid
        THEN Complete(request, Outcome(RequestValidationError, Store, <<>>), now)
        ELSE \E o \in outcomes(current_user) : Complete(request, o, t_end)

GetTasks ==
    Idle /\ \E token \in PresentedTokens : \E user_id \in PathUserIds(token) :
        LET request == [route |-> "get_tasks", token |-> token, user_id |-> user_id]
            H(cu) == get_tasks(Store, user_id, cu)
        IN  Protected(request, TRUE, H, now)

CreateTask ==
    Idle /\ \E token \in PresentedTokens : \E user_id \in PathUserIds(token),
       task_data \in Bodies(token, TaskCreateBodies),
       t_updated \in LaterReads(now, MaxClock) :
        LET request == [route |-> "create_task", token |-> token,
                        user_id |-> user_id, body |-> task_data]
            H(cu) == create_task(Store, task_data, user_id, cu, now, t_updated)
        IN  /\ Cardinality(tasks) < MaxTasks
            /\ taskSeq < MaxTaskSeq
            /\ Protected(request, TaskCreate(task_data), H, t_updated)

GetTask ==
    Idle /\ \E token \in PresentedTokens : \E user_id \in PathUserIds(token),
       id \in TaskIds(token) :
        LET request == [route |-> "get_task", token |-> token, user_id |-> user_id,
                        id |-> id]
            H(cu) == get_task(Store, user_id, id, cu)
        IN  Protected(request, TRUE, H, now)

UpdateTask ==
    Idle /\ \E token \in PresentedTokens : \E user_id \in PathUserIds(token),
       id \in TaskIds(token), task_update \in Bodies(token, TaskUpdateBodies) :
        LET request == [route |-> "update_task", token |-> token, user_id |-> user_id,
                        id |-> id, body |-> task_update]
            H(cu) == update_task(Store, task_update, user_id, id, cu, now)
        IN  Protected(request, TaskUpdate(task_update), H, now)

DeleteTask ==
    Idle /\ \E token \in PresentedTokens : \E user_id \in PathUserIds(token),
       id \in TaskIds(token) :
        LET request == [route |-> "delete_task", token |-> token, user_id |-> user_id,
                        id |-> id]
            H(cu) == delete_task(Store, user_id, id, cu)
        IN  Protected(request, TRUE, H, now)

ToggleTask ==
    Idle /\ \E token \in PresentedTokens : \E user_id \in PathUserIds(token),
       id \in TaskIds(token), completion_data \in Bodies(token, ToggleBodies) :
        LET request == [route |-> "toggle_task_completion", token |-> token,
                        user_id |-> user_id, id |-> id, body |-> completion_data]
            H(cu) == toggle_task_completion(Store, completion_data, user_id, id, cu, now)
        IN  Protected(request, TRUE, H, now)

SignupWith(passwords) ==
    Idle /\ \E email \in EmailInputs, password \in passwords, salt \in Salts,
       t_token \in LaterReads(now, MaxClock) :
        LET user_data == [email |-> email, password |-> password]
            request == [route |-> "signup", body |-> user_data]
        IN  /\ Cardinality(users) < MaxUsers \/ SelectUser(Store, email) # {}
            /\ IF ~UserCreate(user_data)
               THEN Complete(request, Outcome(RequestValidationError, Store, <<>>), now)
               ELSE \E o \in signup(Store, user_data, salt, now, t_token) :
                        Complete(request, o, IF o.resp.raised THEN now ELSE t_token)

\* Registration as the task routes need it: every client uses one password
Register == SignupWith({"password1", "short"})

Signup == SignupWith(PasswordInputs)

Signin ==
    Idle /\ \E email \in EmailInputs, password \in PasswordInputs,
       t_token \in LaterReads(now, MaxClock) :
        LET credentials == [email |-> email, password |-> password]
            request == [route |-> "signin", body |-> credentials]
        IN  \E o \in signin(Store, credentials, t_token) :
                Complete(request, o, IF o.resp.raised THEN now ELSE t_token)

Signout ==
    Idle /\ \E token \in PresentedTokens :
        LET request == [route |-> "signout", token |-> token]
            H(cu) == signout(Store, cu)
        IN  Protected(request, TRUE, H, now)

\* The response has been sent; the process is idle again.
Return ==
    /\ ~Idle
    /\ req' = NoRequest
    /\ resp' = NoResponse
    /\ dbLog' = <<>>
    /\ UNCHANGED <<now, expirationDays, users, tasks, userSeq, taskSeq, dialect, entry,
                   dbInitialized, tok, verified, sess, process>>

Tick ==
    /\ Idle
    /\ now < MaxClock
    /\ now' = now + 1
    /\ UNCHANGED <<expirationDays, users, tasks, userSeq, taskSeq, dialect, entry,
                   dbInitialized, req, resp, dbLog, tok, verified, sess, process>>

\* A new serverless process imports api/index.py: its flag starts False, the
\* database keeps its rows.
ColdStart ==
    /\ Idle
    /\ entry = "serverless"
    /\ dbInitialized
    /\ dbInitialized' = FALSE
    /\ UNCHANGED <<now, expirationDays, users, tasks, userSeq, taskSeq, dialect, entry,
                   req, resp, dbLog, tok, verified, sess, process>>

Init ==
    /\ now = 0
    /\ expirationDays = JWT_EXPIRATION_DAYS
    /\ users = {}
    /\ tasks = {}
    /\ userSeq = 0
    /\ taskSeq = 0
    /\ \E d \in Deployments : entry = d[1] /\ dialect = d[2]
    /\ dbInitialized = (entry = "main")
    /\ req = NoRequest
    /\ resp = NoResponse
    /\ dbLog = <<>>
    /\ tok = NoToken
    /\ verified = NoResponse
    /\ sess = <<>>
    /\ process = [state |-> "serving", settings |-> ValidSettings]

\* The task routes, with registration and signout
Next ==
    \/ Register
    \/ GetTasks
    \/ CreateTask
    \/ GetTask
    \/ UpdateTask
    \/ DeleteTask
    \/ ToggleTask
    \/ Signout
    \/ Return
    \/ Tick
    \/ ColdStart

Spec == Init /\ [][Next]_vars

\* The account routes
NextAccounts ==
    \/ Signup
    \/ Signin
    \/ Signout
    \/ Return
    \/ Tick

SpecAccounts == Init /\ [][NextAccounts]_vars

(***************************************************************************)
(* Concurrent signups.  Each request runs signup (routes/auth.py) on a     *)
(* session of its own, one statement at a time, against the shared         *)
(* database; the session's INSERT becomes visible to the others when       *)
(* get_session commits.                                                    *)
(***************************************************************************)
RaceRequests == 1..NumRaceRequests

NoSession ==
    [pc |-> "none", body |-> [email |-> "", password |-> ""], new |-> {},
     resp |-> NoResponse]

\* Rows the other sessions have flushed and not yet committed
Uncommitted(i) == UNION {sess[j].new : j \in RaceRequests \ {i}}

\* The INSERT waits while another transaction holds the write lock (sqlite)
\* or an uncommitted row with the same email (postgresql).
InsertWaits(i) ==
    \E row \in Uncommitted(i) : dialect = "sqlite" \/ row.email = sess[i].body.email

RaceShared == <<now, expirationDays, tasks, taskSeq, dialect, entry, dbInitialized,
                req, resp, dbLog, tok, verified, process>>

\* The request arrives and its body passes UserCreate
RaceArrive ==
    \E i \in RaceRequests, email \in Emails, password \in Passwords :
        LET user_data == [email |-> email, password |-> password]
        IN  /\ sess[i].pc = "none"
            /\ UserCreate(user_data)
            /\ sess' = [sess EXCEPT ![i] = [@ EXCEPT !.pc = "begin",
                                                     !.body = user_data]]
            /\ UNCHANGED <<users, userSeq>>
            /\ UNCHANGED RaceShared

\* lines 63-73: the look-up of the email, on the committed rows
RaceSelect ==
    \E i \in RaceRequests :
        LET existing_user == signup_check(Store, sess[i].body)
        IN  /\ sess[i].pc = "begin"
            /\ sess' = [sess EXCEPT ![i] =
                           IF existing_user # {}
                           THEN [@ EXCEPT !.pc = "done", !.resp = EmailRegistered]
                           ELSE [@ EXCEPT !.pc = "checked"]]
            /\ UNCHANGED <<users, userSeq>>
            /\ UNCHANGED RaceShared

\* lines 75-99: session.add and flush (the INSERT), then the response; the
\* sequence of postgresql moves whether or not the INSERT succeeds
RaceFlush ==
    \E i \in RaceRequests, salt \in Salts :
        LET new_user == signup_new_user(Store, sess[i].body, salt, now)
        IN  /\ sess[i].pc = "checked"
            /\ ~InsertWaits(i)
            /\ sess' = [sess EXCEPT ![i] =
                           IF UniqueViolation(Store, new_user.email)
                           THEN [@ EXCEPT !.pc = "done",
                                          !.resp = ServerError("IntegrityError")]
                           ELSE [@ EXCEPT !.pc = "flushed", !.new = {new_user},
                                          !.resp = signup_response(new_user, now)]]
            /\ userSeq' = IF dialect = "postgresql" THEN userSeq + 1 ELSE userSeq
            /\ UNCHANGED users
            /\ UNCHANGED RaceShared

\* db.py line 91: the handler returned, get_session commits
RaceCommit ==
    \E i \in RaceRequests :
        /\ sess[i].pc = "flushed"
        /\ users' = users \cup sess[i].new
        /\ sess' = [sess EXCEPT ![i] = [@ EXCEPT !.pc = "done", !.new = {}]]
        /\ UNCHANGED userSeq
        /\ UNCHANGED RaceShared

InitRace ==
    /\ now = 0
    /\ expirationDays = JWT_EXPIRATION_DAYS
    /\ users = {}
    /\ tasks = {}
    /\ userSeq = 0
    /\ taskSeq = 0
    /\ \E d \in Deployments : entry = d[1] /\ dialect = d[2]
    /\ dbInitialized = TRUE
    /\ req = NoRequest
    /\ resp = NoResponse
    /\ dbLog = <<>>
    /\ tok = NoToken
    /\ verified = NoResponse
    /\ sess = [i \in RaceRequests |-> NoSession]
    /\ process = [state |-> "serving", settings |-> ValidSettings]

NextRace ==
    \/ RaceArrive
    \/ RaceSelect
    \/ RaceFlush
    \/ RaceCommit

SpecRace == InitRace /\ [][NextRace]_vars

(***************************************************************************)
(* Properties of the task routes.                                          *)
(***************************************************************************)
ItemRoutes == {"get_task", "update_task", "delete_task", "toggle_task_completion"}

\* The request passes pydantic's validation of its body
WellFormed(r) ==
    CASE r.route = "create_task" -> TaskCreate(r.body)
      [] r.route = "update_task" -> TaskUpdate(r.body)
      [] OTHER -> TRUE

\* Request r carries a token that verifies at time t, for identity a
CallerIs(r, a, t) ==
    LET cu == get_current_user(r.token, t)
    IN  ~cu.raised /\ cu.user_id = a

\* Request r is a well-formed task request by a on the path of another user
Mismatched(r, t) ==
    /\ r.route \in TaskRoutes
    /\ WellFormed(r)
    /\ \E a \in 1..MaxUsers : CallerIs(r, a, t) /\ r.user_id # a

Forbidden == HTTPException(HTTP_403_FORBIDDEN, "Cannot access other user's resources",
                           NoHeaders)

\* C1 (as amended): on each of the six task routes a well-formed request with a
\* valid token for A and path user_id B # A ends in Forbidden (403); no statement
\* on users or tasks is run for it, the only persistence access that can precede
\* the answer being the serverless handler's init_db; users and tasks are unchanged.
C1_ForbiddenBeforeData ==
    [][Mismatched(req', now) =>
          /\ resp' = Forbidden
          /\ dbLog' \in {<<>>, <<"init_db">>}
          /\ dbLog' = <<"init_db">> => entry = "serverless"
          /\ users' = users
          /\ tasks' = tasks]_vars

\* C1 (as stated): on each of the six task routes a request with a valid token
\* for A and path user_id B # A ends in Forbidden (403), no persistence read or
\* write at all is performed for it before that answer, and users and tasks are
\* unchanged.
C1_NoPersistenceAtAll ==
    [][(/\ req'.route \in TaskRoutes
        /\ \E a \in 1..MaxUsers : CallerIs(req', a, now) /\ req'.user_id # a) =>
          /\ resp' = Forbidden
          /\ dbLog' = <<>>
          /\ users' = users
          /\ tasks' = tasks]_vars

\* A's token on B's path asked to delete B's task: 403, the task still there
C1_Witness ==
    /\ req.route = "delete_task"
    /\ Mismatched(req, now)
    /\ resp.status = HTTP_403_FORBIDDEN
    /\ \E t \in tasks : t.id = req.id /\ t.user_id = req.user_id

\* Request r is a well-formed item request by b, on b's own path, for task t
\* of another user
CrossOwner(r, t, time) ==
    /\ r.route \in ItemRoutes
    /\ WellFormed(r)
    /\ r.id = t.id
    /\ \E b \in 1..MaxUsers :
          CallerIs(r, b, time) /\ r.user_id = b /\ b # t.user_id

ItemRoute(route, S, cu, id, body, t) ==
    CASE route = "get_task" -> get_task(S, cu.user_id, id, cu)
      [] route = "update_task" -> update_task(S, body, cu.user_id, id, cu, t)
      [] route = "delete_task" -> delete_task(S, cu.user_id, id, cu)
      [] route = "toggle_task_completion" ->
            toggle_task_completion(S, body, cu.user_id, id, cu, t)

ItemResponses(route, S, cu, id, body, t) ==
    {o.resp : o \in ItemRoute(route, S, cu, id, body, t)}

ItemBodies(route) ==
    CASE route = "update_task" -> {b \in TaskUpdateBodies : TaskUpdate(b)}
      [] route = "toggle_task_completion" -> ToggleBodies
      [] OTHER -> {<<>>}

\* C3: for a caller with a valid token and matching path, get, update, delete and
\* toggle answer the same (status, detail, headers, body) for an id owned by another
\* user as for an id that does not exist, and two stores that differ only in other
\* users' tasks give the caller the same responses.
C3_NonLeakage ==
    \A u \in users : \A route \in ItemRoutes, id \in 1..MaxTaskSeq :
        \A body \in ItemBodies(route) :
            LET cu == Authenticated(u.id, u.email)
                own == [Store EXCEPT !.tasks = SelectTasksOf(Store, u.id)]
                empty == [Store EXCEPT !.tasks = {}]
                here == ItemResponses(route, Store, cu, id, body, now)
            IN  /\ here = ItemResponses(route, own, cu, id, body, now)
                /\ id \notin {t.id : t \in SelectTasksOf(Store, u.id)} =>
                      here = ItemResponses(route, empty, cu, id, body, now)

C3_Witness ==
    /\ req.route = "toggle_task_completion"
    /\ \E t \in tasks : CrossOwner(req, t, now)
    /\ resp = TaskNotFound

\* C4: a task's owner is the identity of the verified token that created it, and
\* no operation changes the owner of an existing task.
C4_OwnerFixed ==
    [][\A t2 \in tasks' :
          \/ \E t \in tasks : t.id = t2.id /\ t.user_id = t2.user_id
          \/ /\ t2.id \notin {t.id : t \in tasks}
             /\ req'.route = "create_task"
             /\ CallerIs(req', t2.user_id, now)]_vars

\* An update and a toggle by the owner have gone through on a task
C4_Witness ==
    /\ req.route \in {"update_task", "toggle_task_completion"}
    /\ resp.status = HTTP_200_OK
    /\ \E t \in tasks : t.id = req.id /\ t.updated_at > t.created_at
                         /\ CallerIs(req, t.user_id, now)

\* C5: two concurrent signups with the same email end with exactly one of
\* them answered 201 and the other 400 "Email already registered"; no two
\* stored users share an email, and the loser sees no other failure.
C5_RaceOneConflict ==
    \A i, j \in RaceRequests :
        (/\ i # j
         /\ sess[i].pc = "done"
         /\ sess[j].pc = "done"
         /\ sess[i].body.email = sess[j].body.email)
            => /\ {sess[i].resp.status, sess[j].resp.status}
                      = {HTTP_201_CREATED, HTTP_400_BAD_REQUEST}
               /\ \A u, v \in users : u.email = v.email => u = v

(***************************************************************************)
(* Properties of the account routes (SpecAccounts).                        *)
(***************************************************************************)
\* C6: a well-formed signup for an email that is not registered answers 201 and
\* stores exactly one user with it; a later signup with the same email (compared
\* exactly, case included) answers Conflict (400) whatever its password, stores no
\* user and leaves every stored user, password hash included, as it was.
C6_DuplicateSignup ==
    [][(req'.route = "signup" /\ UserCreate(req'.body)) =>
          IF \E u \in users : u.email = req'.body.email
          THEN resp' = EmailRegistered /\ users' = users
          ELSE /\ resp'.status = HTTP_201_CREATED
               /\ users \subseteq users'
               /\ Cardinality(users') = Cardinality(users) + 1
               /\ \A u \in users' \ users :
                     /\ u.email = req'.body.email
                     /\ verify_password(req'.body.password, u.password_hash)]_vars

\* The second signup came with another password and was refused
C6_Witness ==
    /\ req.route = "signup"
    /\ resp = EmailRegistered
    /\ \E u \in users : /\ u.email = req.body.email
                         /\ ~verify_password(req.body.password, u.password_hash)
    /\ \E u \in users : u.email # req.body.email

Credentials == [email : EmailInputs, password : PasswordInputs]

SigninResponses(S, credentials, t) == {o.resp : o \in signin(S, credentials, t)}

UnknownEmail(S, credentials) == SelectUser(S, credentials.email) = {}

WrongPassword(S, credentials) ==
    \E u \in SelectUser(S, credentials.email) :
        ~verify_password(credentials.password, u.password_hash)

\* C7: signin with an unknown email and signin with a known email and a wrong
\* password answer alike: the same 401, the same detail, the same headers, and no
\* body, hence no token.
C7_SigninUniform ==
    /\ \A c1, c2 \in Credentials :
          (UnknownEmail(Store, c1) /\ WrongPassword(Store, c2)) =>
              /\ SigninResponses(Store, c1, now) = SigninResponses(Store, c2, now)
              /\ \A r \in SigninResponses(Store, c2, now) :
                    r.status = HTTP_401_UNAUTHORIZED /\ r.body = <<>>
    /\ (req.route = "signin" /\ resp.raised) =>
          /\ UnknownEmail(Store, req.body) \/ WrongPassword(Store, req.body)
          /\ \A c \in Credentials :
                (UnknownEmail(Store, c) \/ WrongPassword(Store, c)) =>
                    SigninResponses(Store, c, now) = {resp}

\* A wrong password for a known email was refused while another email is unknown
C7_Witness ==
    /\ req.route = "signin"
    /\ resp.status = HTTP_401_UNAUTHORIZED
    /\ WrongPassword(Store, req.body)
    /\ \E c \in Credentials : UnknownEmail(Store, c)

(***************************************************************************)
(* The token service on its own (SpecToken): tokens are issued, tampered   *)
(* with and verified while the clock runs past their expiry.               *)
(***************************************************************************)
TokenUserIds == {1, 7, 10, 42, 105}

NotVerified == [token |-> NoToken, at |-> 0, result |-> NoResponse]

Without(f, k) == [x \in DOMAIN f \ {k} |-> f[x]]

\* What a holder of a token (and, for the last three, of the key) can make of it
Tampered(token) ==
    {jwt_encode(token.claims, "attacker-secret"),
     jwt_encode(Without(token.claims, "sub"), token.sig),
     jwt_encode(Without(token.claims, "email"), token.sig)}
    \cup {jwt_encode([token.claims EXCEPT !.sub = <<"x">>], token.sig) :
            k \in {k \in {token} : Has(k.claims, "sub")}}

TokenIssue ==
    \E user_id \in TokenUserIds, email \in Emails,
       t_iat \in LaterReads(now, MaxTokenClock) :
        /\ tok' = create_access_token(user_id, email, expirationDays, now, t_iat)
        /\ req' = [route |-> "issue", user_id |-> user_id, email |-> email,
                   at |-> now, done |-> t_iat]
        /\ now' = t_iat
        /\ verified' = NotVerified
        /\ UNCHANGED <<expirationDays, users, tasks, userSeq, taskSeq, dialect, entry,
                       dbInitialized, resp, dbLog, sess, process>>

TokenTamper ==
    /\ req.route = "issue"
    /\ \E k \in Tampered(tok) :
          /\ tok' = k
          /\ req' = [route |-> "tamper"]
    /\ verified' = NotVerified
    /\ UNCHANGED <<now, expirationDays, users, tasks, userSeq, taskSeq, dialect, entry,
                   dbInitialized, resp, dbLog, sess, process>>

TokenVerify ==
    /\ tok # NoToken
    /\ verified' = [token |-> tok, at |-> now, result |-> verify_token(tok, now)]
    /\ UNCHANGED <<now, expirationDays, users, tasks, userSeq, taskSeq, dialect, entry,
                   dbInitialized, req, resp, dbLog, tok, sess, process>>

TokenTick ==
    /\ now < MaxTokenClock
    /\ now' = now + 1
    /\ UNCHANGED <<expirationDays, users, tasks, userSeq, taskSeq, dialect, entry,
                   dbInitialized, req, resp, dbLog, tok, verified, sess, process>>

\* The configured lifetime, and a process configured with lifetime 0
InitToken ==
    /\ now = 0
    /\ expirationDays \in {JWT_EXPIRATION_DAYS, 0}
    /\ users = {}
    /\ tasks = {}
    /\ userSeq = 0
    /\ taskSeq = 0
    /\ entry = "main"
    /\ dialect = "sqlite"
    /\ dbInitialized = TRUE
    /\ req = NoRequest
    /\ resp = NoResponse
    /\ dbLog = <<>>
    /\ tok = NoToken
    /\ verified = NotVerified
    /\ sess = <<>>
    /\ process = [state |-> "serving", settings |-> ValidSettings]

NextToken ==
    \/ TokenIssue
    \/ TokenTamper
    \/ TokenVerify
    \/ TokenTick

SpecToken == InitToken /\ [][NextToken]_vars

Unauthenticated(r) == r.raised /\ r.status = HTTP_401_UNAUTHORIZED

\* C8: every failure of verify_token (bad signature, payload without sub or
\* email, expiry passed) is one and the same Unauthenticated response, detail and
\* headers included: any two tokens refused with 401 are refused alike.
C8_SingleFailureOutcome ==
    tok # NoToken =>
        \A k1, k2 \in {tok} \cup Tampered(tok) :
            LET r1 == verify_token(k1, now)
                r2 == verify_token(k2, now)
            IN  (Unauthenticated(r1) /\ Unauthenticated(r2)) => r1 = r2

\* C9: create_access_token(id, email) verified before the clock has moved on from
\* its issuance yields exactly id, as an integer, and email (for the configured
\* lifetime of expirationDays >= 1).
C9_RoundTrip ==
    (/\ req.route = "issue"
     /\ expirationDays >= 1
     /\ verified.token = tok
     /\ verified.token # NoToken
     /\ verified.at = req.done)
        => verified.result = Authenticated(req.user_id, req.email)

\* A three-digit id has made the round trip
C9_Witness ==
    /\ req.route = "issue"
    /\ req.user_id = 105
    /\ verified.token = tok
    /\ verified.at = req.done
    /\ ~verified.result.raised
    /\ verified.result.user_id = 105

\* C10 (as stated): a token issued with lifetime 0, and any token verified after
\* the instant of its exp claim, is refused with Unauthenticated.
C10_ExpiredRefused ==
    (/\ verified.token # NoToken
     /\ Has(verified.token.claims, "exp")
     /\ \/ req.route = "issue" /\ verified.token = tok /\ expirationDays = 0
        \/ verified.at > verified.token.claims.exp * TicksPerSecond)
        => Unauthenticated(verified.result)

(***************************************************************************)
(* Tokens and signout (Spec).                                              *)
(***************************************************************************)
ProtectedRoutes == TaskRoutes \cup {"signout"}

SignedOut == Response(HTTP_200_OK, <<[message |-> "Signed out successfully"]>>)

\* C11: tokens are stateless.  Whatever requests have been served, every token
\* that was issued and has not expired still verifies, a protected route never
\* turns such a token away as Unauthenticated, and a signout with it answers 200
\* and leaves users and tasks (and their id sequences) as they were.
C11_TokensStateless ==
    [][/\ \A k \in IssuedTokens' :
             now' <= k.claims.exp * TicksPerSecond => ~get_current_user(k, now').raised
       /\ (req'.route \in ProtectedRoutes /\ req'.token \in IssuedTokens) =>
             resp'.status # HTTP_401_UNAUTHORIZED
       /\ (req'.route = "signout" /\ req'.token \in IssuedTokens) =>
             /\ resp' = SignedOut
             /\ users' = users
             /\ tasks' = tasks
             /\ userSeq' = userSeq
             /\ taskSeq' = taskSeq]_vars

\* A token issued a tick ago has been signed out, its owner's task is still
\* stored, and the token still verifies
C11_Witness ==
    /\ req.route = "signout"
    /\ resp = SignedOut
    /\ req.token \in IssuedTokens
    /\ now > req.token.claims.iat * TicksPerSecond
    /\ \E t \in tasks : CallerIs(req, t.user_id, now)
    /\ ~get_current_user(req.token, now).raised

(***************************************************************************)
(* Listing (SpecList): the accounts create, update, toggle and list their  *)
(* tasks while the clock runs.                                             *)
(***************************************************************************)
\* The token signup handed to each user
ListTokens ==
    {create_access_token(u.id, u.email, expirationDays, u.created_at, u.created_at) :
        u \in users}

ListRegister == Cardinality(users) < MaxUsers /\ Register

ListCreateTask ==
    Idle /\ \E token \in ListTokens, t_updated \in LaterReads(now, MaxListClock) :
        LET task_data == [title |-> "Buy milk", description |-> None]
            user_id == int(token.claims.sub)
            request == [route |-> "create_task", token |-> token,
                        user_id |-> user_id, body |-> task_data]
            H(cu) == create_task(Store, task_data, user_id, cu, now, t_updated)
        IN  /\ Cardinality(tasks) < MaxListTasks
            /\ Protected(request, TaskCreate(task_data), H, t_updated)

ListUpdateTask ==
    Idle /\ \E token \in ListTokens, id \in {t.id : t \in tasks} :
        LET task_update == [title |-> "Call mum", description |-> None]
            user_id == int(token.claims.sub)
            request == [route |-> "update_task", token |-> token, user_id |-> user_id,
                        id |-> id, body |-> task_update]
            H(cu) == update_task(Store, task_update, user_id, id, cu, now)
        IN  Protected(request, TaskUpdate(task_update), H, now)

ListToggleTask ==
    Idle /\ \E token \in ListTokens, id \in {t.id : t \in tasks} :
        LET completion_data == [is_completed |-> TRUE]
            user_id == int(token.claims.sub)
            request == [route |-> "toggle_task_completion", token |-> token,
                        user_id |-> user_id, id |-> id, body |-> completion_data]
            H(cu) == toggle_task_completion(Store, completion_data, user_id, id, cu, now)
        IN  Protected(request, TRUE, H, now)

ListGetTasks ==
    Idle /\ \E token \in ListTokens :
        LET user_id == int(token.claims.sub)
            request == [route |-> "get_tasks", token |-> token, user_id |-> user_id]
            H(cu) == get_tasks(Store, user_id, cu)
        IN  Protected(request, TRUE, H, now)

ListTick ==
    /\ Idle
    /\ now < MaxListClock
    /\ now' = now + 1
    /\ UNCHANGED <<expirationDays, users, tasks, userSeq, taskSeq, dialect, entry,
                   dbInitialized, req, resp, dbLog, tok, verified, sess, process>>

NextList ==
    \/ ListRegister
    \/ ListCreateTask
    \/ ListUpdateTask
    \/ ListToggleTask
    \/ ListGetTasks
    \/ ListTick
    \/ Return

SpecList == Init /\ [][NextList]_vars

\* C12: list answers the caller's tasks ordered by creation time ascending, and
\* tasks with equal creation time in insertion order (a task inserted later has
\* the greater id); updates and toggles do not move a task.
C12_ListOrdered ==
    (req.route = "get_tasks" /\ resp.status = HTTP_200_OK) =>
        \A i, j \in DOMAIN resp.body :
            i < j => \/ resp.body[i].created_at < resp.body[j].created_at
                     \/ /\ resp.body[i].created_at = resp.body[j].created_at
                        /\ resp.body[i].id < resp.body[j].id

\* Request r is a list request by a on a's own path
OwnList(r, a, t) == r.route = "get_tasks" /\ CallerIs(r, a, t) /\ r.user_id = a

\* C13: for a caller with a valid token and matching path, list answers 200 with
\* exactly the stored tasks owned by the token's identity, each once (none of
\* another user, none of the caller's left out; the empty sequence when there are
\* none), and changes no state.
C13_ListScoped ==
    [][\A a \in 1..MaxUsers :
          OwnList(req', a, now) =>
              LET own == {TaskResponse(t) : t \in SelectTasksOf(Store, a)}
              IN  /\ resp'.status = HTTP_200_OK
                  /\ {resp'.body[i] : i \in DOMAIN resp'.body} = own
                  /\ Len(resp'.body) = Cardinality(own)
                  /\ users' = users
                  /\ tasks' = tasks
                  /\ userSeq' = userSeq
                  /\ taskSeq' = taskSeq]_vars

\* A caller with two tasks listed them while another user's task is stored
C13_Witness ==
    /\ \E a \in 1..MaxUsers : OwnList(req, a, now)
    /\ Len(resp.body) = 2
    /\ \E t \in tasks : t.user_id # req.user_id

(***************************************************************************)
(* Effects of the mutating task routes (Spec).                             *)
(***************************************************************************)
\* Request r, by the owner of task t, was answered with success
Succeeded(r, t, route, status, time) ==
    /\ r.route = route
    /\ r.id = t.id
    /\ CallerIs(r, t.user_id, time)
    /\ status \in {HTTP_200_OK, HTTP_204_NO_CONTENT}

\* Task t2 is what a successful update with body leaves of task t
Updated(t, t2, body) ==
    /\ t2.id = t.id
    /\ t2.user_id = t.user_id
    /\ t2.title = IF body.title # None THEN body.title ELSE t.title
    /\ t2.description = IF body.description # None THEN body.description
                        ELSE t.description
    /\ t2.is_completed = t.is_completed
    /\ t2.created_at = t.created_at

\* C14 (as amended): a successful update changes only the fields supplied (title
\* and/or description, a null counting as not supplied); is_completed, created_at,
\* id and user_id keep their values, no other task changes, and updated_at is set
\* to the current time, which is not earlier than its value before the call.
C14_PartialUpdate ==
    [][\A t \in tasks :
          Succeeded(req', t, "update_task", resp'.status, now) =>
              \E t2 \in tasks' :
                  /\ Updated(t, t2, req'.body)
                  /\ t2.updated_at = now'
                  /\ t2.updated_at >= t.updated_at
                  /\ tasks' \ {t2} = tasks \ {t}
                  /\ resp'.body = <<TaskResponse(t2)>>]_vars

\* C14 (as stated): ... and updated_at is set to the current time, strictly later
\* than its value before the call.
C14_UpdatedStrictlyLater ==
    [][\A t \in tasks :
          Succeeded(req', t, "update_task", resp'.status, now) =>
              \E t2 \in tasks' :
                  /\ Updated(t, t2, req'.body)
                  /\ t2.updated_at = now'
                  /\ t2.updated_at > t.updated_at
                  /\ tasks' \ {t2} = tasks \ {t}]_vars

\* An update of the description alone went through: the title is the one the
\* task was created with, the description is new
C14_Witness ==
    /\ req.route = "update_task"
    /\ resp.status = HTTP_200_OK
    /\ req.body = [title |-> None, description |-> "2 litres"]
    /\ \E t \in tasks : /\ t.id = req.id
                         /\ t.title = "Buy milk"
                         /\ t.description = "2 litres"
                         /\ t.updated_at > t.created_at

\* C15: a successful toggle sets is_completed to the supplied boolean, whatever
\* the stored value was (so the same request again leaves it there), leaves
\* title, description, owner, created_at and id alone, sets updated_at to the
\* current time and changes no other task.
C15_ToggleSets ==
    [][\A t \in tasks :
          Succeeded(req', t, "toggle_task_completion", resp'.status, now) =>
              LET t2 == [t EXCEPT !.is_completed = req'.body.is_completed,
                                  !.updated_at = now']
              IN  /\ tasks' = (tasks \ {t}) \cup {t2}
                  /\ resp' = Response(HTTP_200_OK, <<TaskResponse(t2)>>)]_vars

\* A toggle to true went through on a task after the clock had moved on
C15_Witness ==
    /\ req.route = "toggle_task_completion"
    /\ resp.status = HTTP_200_OK
    /\ req.body.is_completed
    /\ \E t \in tasks : /\ t.id = req.id
                         /\ t.is_completed
                         /\ t.updated_at > t.created_at

\* C16: a successful create stores one new task, owned by the identity of the
\* caller's token, not completed, with the title and description supplied and
\* with created_at equal to updated_at; no other task is changed.
C16_CreateStamps ==
    [][(req'.route = "create_task" /\ resp'.status = HTTP_201_CREATED) =>
          \E t2 \in tasks' \ tasks :
              /\ tasks' = tasks \cup {t2}
              /\ CallerIs(req', t2.user_id, now)
              /\ ~t2.is_completed
              /\ t2.title = req'.body.title
              /\ t2.description = req'.body.description
              /\ t2.created_at = t2.updated_at
              /\ resp'.body = <<TaskResponse(t2)>>]_vars

(***************************************************************************)
(* Deletion (SpecServing: the task routes, served for ever).               *)
(***************************************************************************)
\* The server goes on answering and returning
SpecServing == Init /\ [][Next]_vars /\ WF_vars(Next)

StoredIds(S) == {t.id : t \in S}

\* Request r asks for item id with a valid token on the caller's own path
OwnItem(r, id, t) ==
    /\ r.route \in ItemRoutes
    /\ r.id = id
    /\ WellFormed(r)
    /\ \E a \in 1..MaxUsers : CallerIs(r, a, t) /\ r.user_id = a

DeleteSucceeded(id) ==
    req.route = "delete_task" /\ req.id = id /\ resp.status = HTTP_204_NO_CONTENT

FoundAgain(id) ==
    \/ req.route \in ItemRoutes /\ req.id = id /\ ~resp.raised
    \/ /\ req.route = "get_tasks"
       /\ resp.status = HTTP_200_OK
       /\ \E i \in DOMAIN resp.body : resp.body[i].id = id

validate(self) ==
    /\ self.DATABASE_URL # ""
    /\ self.BETTER_AUTH_SECRET # ""
    /\ Len(self.BETTER_AUTH_SECRET) >= SECRET_MIN_LENGTH

\* main.py line 28: settings.validate() at import; ValueError ends the process
BootMain ==
    /\ entry = "main"
    /\ process.state = "importing"
    /\ process' = [process EXCEPT !.state = IF validate(process.settings)
                                            THEN "serving" ELSE "exited"]
    /\ UNCHANGED <<now, expirationDays, users, tasks, userSeq, taskSeq, dialect, entry,
                   dbInitialized, req, resp, dbLog, tok, verified, sess>>

\* api/index.py: imports settings and builds the app
BootServerless ==
    /\ entry = "serverless"
    /\ process.state = "importing"
    /\ process' = [process EXCEPT !.state = "serving"]
    /\ UNCHANGED <<now, expirationDays, users, tasks, userSeq, taskSeq, dialect, entry,
                   dbInitialized, req, resp, dbLog, tok, verified, sess>>

BootIssue == process.state = "serving" /\ TokenIssue

BootVerify == process.state = "serving" /\ TokenVerify

InitBoot ==
    /\ now = 0
    /\ expirationDays = JWT_EXPIRATION_DAYS
    /\ users = {}
    /\ tasks = {}
    /\ userSeq = 0
    /\ taskSeq = 0
    /\ \E d \in Deployments : entry = d[1] /\ dialect = d[2]
    /\ dbInitialized = FALSE
    /\ req = NoRequest
    /\ resp = NoResponse
    /\ dbLog = <<>>
    /\ tok = NoToken
    /\ verified = NotVerified
    /\ sess = <<>>
    /\ \E url \in {"", ValidSettings.DATABASE_URL}, secret \in Secrets :
          process = [state |-> "importing", settings |-> Settings(url, secret)]

NextBoot ==
    \/ BootMain
    \/ BootServerless
    \/ BootIssue
    \/ BootVerify

SpecBoot == InitBoot /\ [][NextBoot]_vars

\* C18: in both entry points, a process whose signing secret is empty or shorter
\* than 32 characters is rejected at start-up: no token is ever issued or
\* verified with such a secret.
C18_ShortSecretRejected ==
    (tok # NoToken \/ verified.token # NoToken) =>
        Len(BETTER_AUTH_SECRET) >= SECRET_MIN_LENGTH

(***************************************************************************)
(* Task timestamps (Spec).                                                 *)
(***************************************************************************)
\* The routes that change a stored task
MutatingRoutes == {"update_task", "toggle_task_completion"}

\* C19: created_at is set when the task is created and no later operation
\* changes it; every successful update or toggle sets updated_at to the current
\* time; in every reachable state updated_at >= created_at for every task, and
\* the updated_at of a task never decreases.
C19_Timestamps ==
    /\ [](\A t \in tasks : t.updated_at >= t.created_at)
    /\ [][\A t \in tasks, t2 \in tasks' :
             t2.id = t.id =>
                 /\ t2.created_at = t.created_at
                 /\ t2.updated_at >= t.updated_at
                 /\ (\E route \in MutatingRoutes :
                        Succeeded(req', t, route, resp'.status, now))
                        => t2.updated_at = now']_vars

\* A completed task (so a toggle went through earlier) has just been updated
\* at a time later than its creation
C19_Witness ==
    /\ req.route = "update_task"
    /\ resp.status = HTTP_200_OK
    /\ \E t \in tasks : /\ t.id = req.id
                         /\ t.is_completed
                         /\ t.created_at < t.updated_at
                         /\ t.updated_at = now

(***************************************************************************)
(* First requests of a serverless process (SpecInit): the requests run as  *)
(* tasks of one event loop and change hands at each await of               *)
(* ensure_db_initialized (api/index.py lines 64-79).                       *)
(***************************************************************************)
InitRequests == 1..NumInitRequests

InitShared == <<now, expirationDays, users, tasks, userSeq, taskSeq, dialect, entry,
                req, resp, tok, verified, process>>

\* Outcomes of init_db: create_all went through, or it raised
InitOutcomes == {"Database initialized successfully", "Database initialization"}

\* The requests at position pc of the middleware
At(pc) == {i \in InitRequests : sess[i].pc = pc}

\* Calls of init_db made so far
InitStarted == {k \in DOMAIN dbLog : dbLog[k] = "init_db"}

\* lines 67-70: the request reads _db_initialized; when it is unset the request
\* calls init_db and waits for it, otherwise it goes on to call_next (line 77)
InitArrive ==
    \E i \in InitRequests :
        /\ sess[i].pc = "none"
        /\ IF ~dbInitialized
           THEN /\ sess' = [sess EXCEPT ![i] = [@ EXCEPT !.pc = "init_db"]]
                /\ dbLog' = Append(dbLog, "init_db")
           ELSE /\ sess' = [sess EXCEPT ![i] = [@ EXCEPT !.pc = "call_next"]]
                /\ UNCHANGED dbLog
        /\ UNCHANGED dbInitialized
        /\ UNCHANGED InitShared

\* lines 70-77: init_db returns or raises; either way the request sets
\* _db_initialized and goes on to call_next
InitFinish ==
    \E i \in InitRequests, outcome \in InitOutcomes :
        /\ sess[i].pc = "init_db"
        /\ dbInitialized' = TRUE
        /\ dbLog' = Append(dbLog, outcome)
        /\ sess' = [sess EXCEPT ![i] = [@ EXCEPT !.pc = "call_next"]]
        /\ UNCHANGED InitShared

\* lines 77-78: the route handler has answered
InitReturn ==
    \E i \in InitRequests :
        /\ sess[i].pc = "call_next"
        /\ sess' = [sess EXCEPT ![i] = [@ EXCEPT !.pc = "done"]]
        /\ UNCHANGED <<dbInitialized, dbLog>>
        /\ UNCHANGED InitShared

InitInit ==
    /\ now = 0
    /\ expirationDays = JWT_EXPIRATION_DAYS
    /\ users = {}
    /\ tasks = {}
    /\ userSeq = 0
    /\ taskSeq = 0
    /\ entry = "serverless"
    /\ dialect = "postgresql"
    /\ dbInitialized = FALSE
    /\ req = NoRequest
    /\ resp = NoResponse
    /\ dbLog = <<>>
    /\ tok = NoToken
    /\ verified = NoResponse
    /\ sess = [i \in InitRequests |-> NoSession]
    /\ process = [state |-> "serving", settings |-> ValidSettings]

NextInit ==
    \/ InitArrive
    \/ InitFinish
    \/ InitReturn

SpecInit == InitInit /\ [][NextInit]_vars

\* C20: in the serverless handler init_db is started at most once per process,
\* and no request is passed on to its route handler while an initialization
\* started by another request is still in progress.
C20_InitOnce ==
    /\ Cardinality(InitStarted) <= 1
    /\ \A i \in At("call_next"), j \in At("init_db") : i = j

(***************************************************************************)
(* Requests that end in an error (Spec).                                   *)
(***************************************************************************)
\* C21: a request answered with 400, 401, 403, 404 or 422 leaves the stored
\* users and tasks exactly as they were before it; the request's session
\* commits only when the handler returned without raising, and a handler that
\* raised after running a statement has its transaction rolled back.
C21_ErrorsLeaveState ==
    [][(Idle /\ req' # NoRequest) =>
          /\ resp'.status \in {HTTP_400_BAD_REQUEST, HTTP_401_UNAUTHORIZED,
                               HTTP_403_FORBIDDEN, HTTP_404_NOT_FOUND,
                               HTTP_422_UNPROCESSABLE}
                => (resp'.raised /\ users' = users /\ tasks' = tasks)
          /\ (\E k \in DOMAIN dbLog' : dbLog'[k] = "COMMIT") => ~resp'.raised
          /\ (resp'.raised /\ \E k \in DOMAIN dbLog' : dbLog'[k] # "init_db")
                => dbLog'[Len(dbLog')] = "ROLLBACK"
          /\ (users' # users \/ tasks' # tasks)
                => dbLog'[Len(dbLog')] = "COMMIT"]_vars

\* An update of a task that is not the caller's to see was answered 404 after
\* its SELECT, while some task is stored
C21_Witness ==
    /\ req.route = "update_task"
    /\ resp.status = HTTP_404_NOT_FOUND
    /\ dbLog = <<"SELECT tasks", "ROLLBACK">>
    /\ tasks # {}

====
